---- MODULE Spec2Model ----
(***************************************************************************)
(* Model of PhysicsEngine (src/physics_engine.py): centre of gravity,      *)
(* stability score, torque, warnings, greedy placement and load analysis.  *)
(*                                                                         *)
(* Numbers.  The engine computes on Python numbers.  Every quantity is     *)
(* modelled as an exact rational <<n, d>> in lowest terms with d > 0, so   *)
(* that equality of values is equality of tuples.  The decimal literals of *)
(* the source (0.3, 0.9, ...) are the rationals they denote.  The rounding *)
(* of IEEE-754 binary64 after each operation is not modelled; round(x, 2)  *)
(* is modelled as the round-half-even it performs.                         *)
(***************************************************************************)
EXTENDS Integers, Sequences, FiniteSets, TLC

VARIABLES
    vehicle,        \* the vehicle dict handed to the engine
    cargo_items,    \* the cargo list handed to the engine (cargo_data)
    placements,     \* the placement list (caller-supplied or optimizer-made)
    analysis,       \* the dict returned by analyze_load, or None
    cog,            \* argument / result of a direct call: centre of gravity
    stability_score,\* argument / result of a direct call
    torque,         \* argument of a direct call to generate_warnings
    total_weight,   \* argument of a direct call to generate_warnings
    warnings,       \* result of a direct call to generate_warnings
    entry,          \* which caller runs: "generate", "analyze", "score", "warn"
    pc              \* position of the caller

vars == <<vehicle, cargo_items, placements, analysis, cog, stability_score,
          torque, total_weight, warnings, entry, pc>>

None == "None"

-----------------------------------------------------------------------------
(* Exact rational arithmetic *)

RECURSIVE GCD(_, _)
GCD(a, b) == IF b = 0 THEN a ELSE GCD(b, a % b)

IAbs(i) == IF i < 0 THEN -i ELSE i

\* A division by zero raises ZeroDivisionError, which no engine function
\* catches: it is the value <<0, 0>>, which every operation passes on.
ZeroDivisionError == <<0, 0>>

\* n/d in lowest terms, d > 0
Rat(n, d) ==
    IF d = 0 THEN ZeroDivisionError
    ELSE LET g == GCD(IAbs(n), IAbs(d))
             s == IF d < 0 THEN -1 ELSE 1
         IN  <<(s * n) \div g, (s * d) \div g>>

Num(n) == <<n, 1>>
Zero == <<0, 1>>

Add(a, b) == Rat(a[1] * b[2] + b[1] * a[2], a[2] * b[2])
Sub(a, b) == Rat(a[1] * b[2] - b[1] * a[2], a[2] * b[2])
Mul(a, b) == Rat(a[1] * b[1], a[2] * b[2])
\* true division
Div(a, b) == Rat(a[1] * b[2], a[2] * b[1])
Lt(a, b) == a[1] * b[2] < b[1] * a[2]
Le(a, b) == a[1] * b[2] <= b[1] * a[2]
Gt(a, b) == Lt(b, a)
Ge(a, b) == Le(b, a)

\* Python abs(x)
abs(a) == IF a[1] < 0 THEN <<-a[1], a[2]>> ELSE a

\* Python max(a, b): b only when b > a, else the first argument
max(a, b) == IF Gt(b, a) THEN b ELSE a

\* Python min(a, b): b only when b < a, else the first argument
min(a, b) == IF Lt(b, a) THEN b ELSE a

\* Python round(x, 2): to the nearest multiple of 1/100, ties to the even one
round2(a) ==
    LET n == a[1] * 100
        d == a[2]
        q == n \div d          \* floor, d > 0
        r == n % d             \* 0 <= r < d
        h == IF 2 * r > d THEN q + 1
             ELSE IF 2 * r < d THEN q
             ELSE IF q % 2 = 0 THEN q ELSE q + 1
    IN  Rat(h, 100)

-----------------------------------------------------------------------------
(* PhysicsEngine *)

\* cargo_dict = {c['cargo_id']: c for c in cargo_data}: a later entry with the
\* same id replaces an earlier one
cargo_dict(cargo_data) ==
    [id \in {cargo_data[i].cargo_id : i \in DOMAIN cargo_data} |->
        LET idx  == {i \in DOMAIN cargo_data : cargo_data[i].cargo_id = id}
            last == CHOOSE i \in idx : \A j \in idx : j <= i
        IN  cargo_data[last]]

Half(a) == Div(a, Num(2))

\* accumulators that take a placement of unknown cargo for a unit weight at
\* the placement's corner instead of skipping it
RECURSIVE cog_loop_no_skip(_, _, _)
cog_loop_no_skip(pls, cargo_data, k) ==
    IF k = 0
    THEN [total_weight |-> Zero, weighted_x |-> Zero,
          weighted_y |-> Zero, weighted_z |-> Zero]
    ELSE LET acc       == cog_loop_no_skip(pls, cargo_data, k - 1)
             placement == pls[k]
             dict      == cargo_dict(cargo_data)
             known     == placement.cargo_id \in DOMAIN dict
             weight   == IF known THEN dict[placement.cargo_id].weight ELSE Num(1)
             center_x == IF known
                         THEN Add(placement.position_x, Half(dict[placement.cargo_id].length))
                         ELSE placement.position_x
             center_y == IF known
                         THEN Add(placement.position_y, Half(dict[placement.cargo_id].width))
                         ELSE placement.position_y
             center_z == IF known
                         THEN Add(placement.position_z, Half(dict[placement.cargo_id].height))
                         ELSE placement.position_z
         IN  [total_weight |-> Add(acc.total_weight, weight),
              weighted_x |-> Add(acc.weighted_x, Mul(center_x, weight)),
              weighted_y |-> Add(acc.weighted_y, Mul(center_y, weight)),
              weighted_z |-> Add(acc.weighted_z, Mul(center_z, weight))]

\* the accumulators of calculate_center_of_gravity after the first k placements
RECURSIVE cog_loop(_, _, _)
cog_loop(pls, cargo_data, k) ==
    IF k = 0
    THEN [total_weight |-> Zero, weighted_x |-> Zero,
          weighted_y |-> Zero, weighted_z |-> Zero]
    ELSE LET acc       == cog_loop(pls, cargo_data, k - 1)
             placement == pls[k]
             dict      == cargo_dict(cargo_data)
         IN  IF placement.cargo_id \notin DOMAIN dict
             THEN acc      \* cargo is None: continue
             ELSE LET cargo    == dict[placement.cargo_id]
                      weight   == cargo.weight
                      center_x == Add(placement.position_x, Half(cargo.length))
                      center_y == Add(placement.position_y, Half(cargo.width))
                      center_z == Add(placement.position_z, Half(cargo.height))
                  IN  [total_weight |-> Add(acc.total_weight, weight),
                       weighted_x |-> Add(acc.weighted_x, Mul(center_x, weight)),
                       weighted_y |-> Add(acc.weighted_y, Mul(center_y, weight)),
                       weighted_z |-> Add(acc.weighted_z, Mul(center_z, weight))]

\* a centre of gravity without the guard for a total weight of 0
calculate_center_of_gravity_unguarded(pls, cargo_data) ==
    LET acc == cog_loop(pls, cargo_data, Len(pls))
    IN  [x |-> Div(acc.weighted_x, acc.total_weight),
         y |-> Div(acc.weighted_y, acc.total_weight),
         z |-> Div(acc.weighted_z, acc.total_weight)]

\* an unweighted mean: the sums divided by the number of placed items
calculate_center_of_gravity_by_count(pls, cargo_data) ==
    LET acc == cog_loop(pls, cargo_data, Len(pls))
        n   == Num(Cardinality({i \in DOMAIN pls :
                       pls[i].cargo_id \in DOMAIN cargo_dict(cargo_data)}))
    IN  IF acc.total_weight = Zero
        THEN [x |-> Zero, y |-> Zero, z |-> Zero]
        ELSE [x |-> Div(acc.weighted_x, n),
              y |-> Div(acc.weighted_y, n),
              z |-> Div(acc.weighted_z, n)]

calculate_center_of_gravity(pls, cargo_data) ==
    LET acc == cog_loop(pls, cargo_data, Len(pls))
    IN  IF acc.total_weight = Zero
        THEN [x |-> Zero, y |-> Zero, z |-> Zero]
        ELSE [x |-> Div(acc.weighted_x, acc.total_weight),
              y |-> Div(acc.weighted_y, acc.total_weight),
              z |-> Div(acc.weighted_z, acc.total_weight)]

\* a deviation that keeps its sign
deviation_signed(c, ideal) ==
    IF Gt(ideal, Zero) THEN Div(Sub(c, ideal), ideal) ELSE Zero

\* abs(c - ideal) / ideal if ideal > 0 else 0
deviation(c, ideal) ==
    IF Gt(ideal, Zero) THEN Div(abs(Sub(c, ideal)), ideal) ELSE Zero

\* a score without the floor at 0
score_of_unclamped(weighted_deviation) ==
    Sub(Num(100), Mul(weighted_deviation, Num(100)))

\* score = max(0, 100 - (weighted_deviation * 100))
score_of(weighted_deviation) ==
    max(Zero, Sub(Num(100), Mul(weighted_deviation, Num(100))))

calculate_stability_score(c, v) ==
    LET ideal_x == Half(v.length)
        ideal_y == Half(v.width)
        ideal_z == Half(v.height)
        dev_x == deviation(c.x, ideal_x)
        dev_y == deviation(c.y, ideal_y)
        dev_z == deviation(c.z, ideal_z)
        weighted_deviation ==
            Add(Add(Mul(dev_x, Rat(3, 10)), Mul(dev_y, Rat(5, 10))),
                Mul(dev_z, Rat(2, 10)))
        score == score_of(weighted_deviation)
    IN  round2(score)

\* the accumulators of calculate_torque after the first k placements
RECURSIVE torque_loop(_, _, _, _)
torque_loop(pls, cargo_data, c, k) ==
    IF k = 0
    THEN [torque_x |-> Zero, torque_y |-> Zero, torque_z |-> Zero]
    ELSE LET acc       == torque_loop(pls, cargo_data, c, k - 1)
             placement == pls[k]
             dict      == cargo_dict(cargo_data)
         IN  IF placement.cargo_id \notin DOMAIN dict
             THEN acc
             ELSE LET cargo  == dict[placement.cargo_id]
                      weight == cargo.weight
                      pos_x  == Add(placement.position_x, Half(cargo.length))
                      pos_y  == Add(placement.position_y, Half(cargo.width))
                      pos_z  == Add(placement.position_z, Half(cargo.height))
                      r_x    == Sub(pos_x, c.x)
                      r_y    == Sub(pos_y, c.y)
                      r_z    == Sub(pos_z, c.z)
                  IN  [torque_x |-> Add(acc.torque_x, Mul(r_y, weight)),
                       torque_y |-> Add(acc.torque_y, Mul(r_x, weight)),
                       torque_z |-> Add(acc.torque_z, Mul(Mul(r_x, r_y), weight))]

\* a torque taken about the origin of the vehicle frame, not about cog
calculate_torque_about_origin(pls, cargo_data, c) ==
    LET acc == torque_loop(pls, cargo_data, [x |-> Zero, y |-> Zero, z |-> Zero],
                           Len(pls))
    IN  [pitch |-> abs(acc.torque_x),
         roll  |-> abs(acc.torque_y),
         yaw   |-> abs(acc.torque_z)]

calculate_torque(pls, cargo_data, c) ==
    LET acc == torque_loop(pls, cargo_data, c, Len(pls))
    IN  [pitch |-> abs(acc.torque_x),
         roll  |-> abs(acc.torque_y),
         yaw   |-> abs(acc.torque_z)]

\* The messages of generate_warnings.  The two capacity messages carry
\* formatted numbers in the source; here a message is its fixed wording.
MsgOverCapacity  == "CRITICAL: Total weight exceeds vehicle capacity"
MsgNearCapacity  == "WARNING: Load is at % of capacity"
MsgPoorStability == "CRITICAL: Poor stability - load is dangerously unbalanced"
MsgSuboptimal    == "WARNING: Suboptimal stability - consider redistributing load"
MsgLateral       == "CRITICAL: Significant lateral imbalance detected - risk of tipping"
MsgLongitudinal  == "WARNING: Load is too far forward or backward"
MsgHighCog       == "WARNING: High center of gravity - reduced stability"
MsgRollTorque    == "WARNING: Excessive rolling torque detected"
MsgPitchTorque   == "WARNING: Excessive pitching torque detected"

\* warnings.append(msg) under an if
When(cond, msg) == IF cond THEN <<msg>> ELSE <<>>

\* a weight warning whose second test is an if of its own, not an elif
weight_warning_two_ifs(tw, v) ==
    When(Gt(tw, v.max_load), MsgOverCapacity)
    \o When(Gt(tw, Mul(v.max_load, Rat(9, 10))), MsgNearCapacity)

\* the weight warning: if / elif
weight_warning(tw, v) ==
    IF Gt(tw, v.max_load) THEN <<MsgOverCapacity>>
    ELSE IF Gt(tw, Mul(v.max_load, Rat(9, 10))) THEN <<MsgNearCapacity>>
    ELSE <<>>

\* the stability warning: if / elif
stability_warning(score) ==
    IF Lt(score, Num(50)) THEN <<MsgPoorStability>>
    ELSE IF Lt(score, Num(70)) THEN <<MsgSuboptimal>>
    ELSE <<>>

generate_warnings(c, score, t, v, tw) ==
    LET vehicle_center_y == Half(v.width)
        lateral_deviation == abs(Sub(c.y, vehicle_center_y))
        vehicle_center_x == Half(v.length)
        longitudinal_deviation == abs(Sub(c.x, vehicle_center_x))
        max_acceptable_torque == Mul(Mul(tw, v.width), Rat(1, 10))
    IN  weight_warning(tw, v)
        \o stability_warning(score)
        \o When(Gt(lateral_deviation, Mul(v.width, Rat(15, 100))), MsgLateral)
        \o When(Gt(longitudinal_deviation, Mul(v.length, Rat(2, 10))), MsgLongitudinal)
        \o When(Gt(c.z, Mul(v.height, Rat(6, 10))), MsgHighCog)
        \o When(Gt(t.roll, max_acceptable_torque), MsgRollTorque)
        \o When(Gt(t.pitch, max_acceptable_torque), MsgPitchTorque)

\* a descending sort that puts a later item before the earlier items of its
\* weight, as reversing an ascending stable sort would
RECURSIVE sorted_cargo_reversed_ties(_)
sorted_cargo_reversed_ties(items) ==
    IF items = <<>> THEN <<>>
    ELSE LET n    == Len(items)
             rest == sorted_cargo_reversed_ties(SubSeq(items, 1, n - 1))
             item == items[n]
             p    == Cardinality({i \in DOMAIN rest : Gt(rest[i].weight, item.weight)})
         IN  SubSeq(rest, 1, p) \o <<item>> \o SubSeq(rest, p + 1, n - 1)

\* sorted(cargo_items, key=weight, reverse=True): a stable sort, so items of
\* equal weight keep their input order
RECURSIVE sorted_cargo(_)
sorted_cargo(items) ==
    IF items = <<>> THEN <<>>
    ELSE LET n    == Len(items)
             rest == sorted_cargo(SubSeq(items, 1, n - 1))
             item == items[n]
             p    == Cardinality({i \in DOMAIN rest : Ge(rest[i].weight, item.weight)})
         IN  SubSeq(rest, 1, p) \o <<item>> \o SubSeq(rest, p + 1, n - 1)

\* a clamp with min and max exchanged
clamp_y_swapped(target_y, v, cargo) ==
    min(Zero, max(target_y, Sub(v.width, cargo.width)))

\* a lateral position that is not clamped
clamp_y_unclamped(target_y, v, cargo) == target_y

\* position_y: max(0, min(target_y, vehicle.width - cargo.width))
clamp_y(target_y, v, cargo) ==
    max(Zero, min(target_y, Sub(v.width, cargo.width)))

\* a row test that refuses an item ending exactly at the vehicle's end
fits_strict(current_x, cargo, v) == Lt(Add(current_x, cargo.length), v.length)

\* the row test: current_x + cargo['length'] <= vehicle['length']
fits(current_x, cargo, v) == Le(Add(current_x, cargo.length), v.length)

\* a loop that restarts max_row_height before it raises current_z, so that a
\* new row rises by the height of its own first item
RECURSIVE place_loop_height_first(_, _, _)
place_loop_height_first(sorted, v, k) ==
    IF k = 0
    THEN [placements |-> <<>>, current_x |-> Zero, current_z |-> Zero,
          max_row_height |-> Zero]
    ELSE LET st       == place_loop_height_first(sorted, v, k - 1)
             cargo    == sorted[k]
             vehicle_center_y == Half(v.width)
             target_y == Sub(vehicle_center_y, Half(cargo.width))
         IN  IF fits(st.current_x, cargo, v)
             THEN \* place in the current row
                  [placements |-> Append(st.placements,
                        [cargo_id |-> cargo.cargo_id,
                         position_x |-> st.current_x,
                         position_y |-> clamp_y(target_y, v, cargo),
                         position_z |-> st.current_z,
                         rotation |-> 0]),
                   current_x |-> Add(st.current_x, cargo.length),
                   current_z |-> st.current_z,
                   max_row_height |-> max(st.max_row_height, cargo.height)]
             ELSE \* start a new row
                  LET new_z == Add(st.current_z, cargo.height)
                  IN  [placements |-> Append(st.placements,
                        [cargo_id |-> cargo.cargo_id,
                         position_x |-> Zero,
                         position_y |-> clamp_y(target_y, v, cargo),
                         position_z |-> new_z,
                         rotation |-> 0]),
                       current_x |-> Add(Zero, cargo.length),
                       current_z |-> new_z,
                       max_row_height |-> cargo.height]

\* a loop whose max_row_height is the height of the last item of the row,
\* not the largest
RECURSIVE place_loop_last_height(_, _, _)
place_loop_last_height(sorted, v, k) ==
    IF k = 0
    THEN [placements |-> <<>>, current_x |-> Zero, current_z |-> Zero,
          max_row_height |-> Zero]
    ELSE LET st       == place_loop_last_height(sorted, v, k - 1)
             cargo    == sorted[k]
             vehicle_center_y == Half(v.width)
             target_y == Sub(vehicle_center_y, Half(cargo.width))
         IN  IF fits(st.current_x, cargo, v)
             THEN \* place in the current row
                  [placements |-> Append(st.placements,
                        [cargo_id |-> cargo.cargo_id,
                         position_x |-> st.current_x,
                         position_y |-> clamp_y(target_y, v, cargo),
                         position_z |-> st.current_z,
                         rotation |-> 0]),
                   current_x |-> Add(st.current_x, cargo.length),
                   current_z |-> st.current_z,
                   max_row_height |-> cargo.height]
             ELSE \* start a new row
                  LET new_z == Add(st.current_z, st.max_row_height)
                  IN  [placements |-> Append(st.placements,
                        [cargo_id |-> cargo.cargo_id,
                         position_x |-> Zero,
                         position_y |-> clamp_y(target_y, v, cargo),
                         position_z |-> new_z,
                         rotation |-> 0]),
                       current_x |-> Add(Zero, cargo.length),
                       current_z |-> new_z,
                       max_row_height |-> cargo.height]

\* the locals of optimize_placement after the first k items of sorted_cargo
RECURSIVE place_loop(_, _, _)
place_loop(sorted, v, k) ==
    IF k = 0
    THEN [placements |-> <<>>, current_x |-> Zero, current_z |-> Zero,
          max_row_height |-> Zero]
    ELSE LET st       == place_loop(sorted, v, k - 1)
             cargo    == sorted[k]
             vehicle_center_y == Half(v.width)
             target_y == Sub(vehicle_center_y, Half(cargo.width))
         IN  IF fits(st.current_x, cargo, v)
             THEN \* place in the current row
                  [placements |-> Append(st.placements,
                        [cargo_id |-> cargo.cargo_id,
                         position_x |-> st.current_x,
                         position_y |-> clamp_y(target_y, v, cargo),
                         position_z |-> st.current_z,
                         rotation |-> 0]),
                   current_x |-> Add(st.current_x, cargo.length),
                   current_z |-> st.current_z,
                   max_row_height |-> max(st.max_row_height, cargo.height)]
             ELSE \* start a new row
                  LET new_z == Add(st.current_z, st.max_row_height)
                  IN  [placements |-> Append(st.placements,
                        [cargo_id |-> cargo.cargo_id,
                         position_x |-> Zero,
                         position_y |-> clamp_y(target_y, v, cargo),
                         position_z |-> new_z,
                         rotation |-> 0]),
                       current_x |-> Add(Zero, cargo.length),
                       current_z |-> new_z,
                       max_row_height |-> cargo.height]

\* an optimizer that leaves out the items longer than the vehicle
optimize_placement_fitting(items, v) ==
    LET sorted == SelectSeq(sorted_cargo(items), LAMBDA c : Le(c.length, v.length))
    IN  place_loop(sorted, v, Len(sorted)).placements

optimize_placement(items, v) ==
    LET sorted == sorted_cargo(items)
    IN  place_loop(sorted, v, Len(sorted)).placements

\* a total that counts only the cargo some placement references
RECURSIVE sum_weight_placed(_)
sum_weight_placed(cargo_data) ==
    IF cargo_data = <<>> THEN Zero
    ELSE LET n == Len(cargo_data)
             rest == sum_weight_placed(SubSeq(cargo_data, 1, n - 1))
         IN  IF \E i \in DOMAIN placements :
                    placements[i].cargo_id = cargo_data[n].cargo_id
             THEN Add(rest, cargo_data[n].weight)
             ELSE rest

\* sum(c['weight'] for c in cargo_data)
RECURSIVE sum_weight(_)
sum_weight(cargo_data) ==
    IF cargo_data = <<>> THEN Zero
    ELSE Add(sum_weight(SubSeq(cargo_data, 1, Len(cargo_data) - 1)),
             cargo_data[Len(cargo_data)].weight)

\* a safety test that refuses a load of exactly max_load
is_safe_of_below_limit(score, tw, v) == Ge(score, Num(70)) /\ Lt(tw, v.max_load)

\* a safety test that forgets the load limit
is_safe_of_score_only(score, tw, v) == Ge(score, Num(70))

\* is_safe = stability_score >= 70 and total_weight <= vehicle['max_load']
is_safe_of(score, tw, v) == Ge(score, Num(70)) /\ Le(tw, v.max_load)

analyze_load(pls, cargo_data, v) ==
    LET c     == calculate_center_of_gravity(pls, cargo_data)
        score == calculate_stability_score(c, v)
        t     == calculate_torque(pls, cargo_data, c)
        tw    == sum_weight(cargo_data)
        w     == generate_warnings(c, score, t, v, tw)
    IN  [center_of_gravity |-> c,
         stability_score |-> score,
         torque_analysis |-> t,
         warnings |-> w,
         is_safe |-> is_safe_of(score, tw, v),
         total_weight |-> tw]

-----------------------------------------------------------------------------
(* Inputs *)

MaxCargo == 3        \* longest cargo list handed to the engine
MaxPlacements == 2   \* longest caller-supplied placement list

\* all sequences over S of length at most n
SeqsUpTo(S, n) == UNION {[1..k -> S] : k \in 0..n}

Vehicle(l, w, h, m) ==
    [length |-> Num(l), width |-> Num(w), height |-> Num(h), max_load |-> Num(m)]

Cargo(id, wt, l, w, h) ==
    [cargo_id |-> id, weight |-> Num(wt), length |-> Num(l), width |-> Num(w),
     height |-> Num(h)]

Placement(id, x, y, z) ==
    [cargo_id |-> id, position_x |-> Num(x), position_y |-> Num(y),
     position_z |-> Num(z), rotation |-> 0]

\* vehicles of generate_load_plan and analyze_load_plan: positive dimensions
Vehicles == {Vehicle(4, 2, 2, m) : m \in {2, 5}}

\* cargo attributes <<weight, length, width, height>>, all positive; some
\* items are longer (5 > 4) or wider (3 > 2) than the vehicle
CargoShapes ==
    {<<2, 2, 1, 1>>, <<2, 1, 1, 2>>, <<1, 2, 1, 2>>, <<1, 1, 1, 1>>,
     <<1, 1, 2, 1>>, <<1, 1, 3, 1>>, <<2, 2, 3, 2>>, <<2, 5, 1, 1>>,
     <<1, 5, 3, 2>>}

\* cargo rows as fetched from storage: distinct ids 1..n in list order
CargoLists(n) ==
    {[i \in 1..Len(sh) |-> Cargo(i, sh[i][1], sh[i][2], sh[i][3], sh[i][4])] :
        sh \in SeqsUpTo(CargoShapes, n)}

\* --- caller-supplied placements (analyze_load_plan, or a direct call) ---

UnknownId == MaxCargo + MaxPlacements + 1   \* an id that no cargo row carries

\* cargo of the analysed loads: <<weight, length, width, height>>
AnalysisShapes == {<<2, 2, 1, 1>>, <<1, 2, 1, 2>>}

AnalysisCargoLists ==
    {[i \in 1..Len(sh) |-> Cargo(i, sh[i][1], sh[i][2], sh[i][3], sh[i][4])] :
        sh \in SeqsUpTo(AnalysisShapes, MaxPlacements)}

\* origin corners <<x, y, z>>; the engine does not enforce containment
Corners == {<<0, 0, 0>>, <<2, 1, 0>>, <<-1, 0, 1>>}

CallerPlacements ==
    {Placement(id, c[1], c[2], c[3]) : id \in {1, 2, UnknownId}, c \in Corners}

PlacementLists == SeqsUpTo(CallerPlacements, MaxPlacements)

\* --- direct calls of calculate_stability_score and generate_warnings ---

\* coordinates of a centre of gravity, also far outside the vehicle
Coordinates == {Num(-100), Zero, Rat(1, 3), Num(1), Num(2), Num(1000)}

Cogs == {[x |-> cx, y |-> cy, z |-> cz] :
            cx \in Coordinates, cy \in Coordinates, cz \in Coordinates}

\* vehicles with any dimension zero
AnyVehicles == {Vehicle(l, w, h, 10) : l \in {0, 4}, w \in {0, 2}, h \in {0, 2}}

\* arguments of generate_warnings around each threshold, for the vehicle
\* Vehicle(4, 2, 2, 10): 0.9 * max_load = 9, 0.15 * width = 3/10,
\* 0.2 * length = 4/5, 0.6 * height = 6/5
WarnVehicle == Vehicle(4, 2, 2, 10)
WarnWeights == {Num(9), Rat(19, 2), Num(10), Num(11)}
WarnScores  == {Zero, Rat(4999, 100), Num(50), Rat(6999, 100), Num(70), Num(100)}
WarnCogs    == {[x |-> cx, y |-> cy, z |-> cz] :
                   cx \in {Num(2), Rat(14, 5), Num(4)},
                   cy \in {Num(1), Rat(13, 10), Num(2)},
                   cz \in {Num(1), Rat(6, 5), Num(2)}}
WarnTorques == {[pitch |-> tp, roll |-> tr, yaw |-> Zero] :
                   tp \in {Zero, Num(2), Num(3)}, tr \in {Zero, Num(2), Num(3)}}

-----------------------------------------------------------------------------
(* The callers of the engine *)

\* generate_load_plan (src/main.py): the cargo rows and the vehicle are
\* fetched, the placements are yet to be made.  A request without cargo
\* items is refused before the engine is called.
InitGenerate ==
    /\ entry = "generate"
    /\ pc = "optimize"
    /\ vehicle \in Vehicles
    /\ cargo_items \in CargoLists(MaxCargo) \ {<<>>}
    /\ placements = <<>>
    /\ analysis = None
    /\ cog = None /\ stability_score = None /\ torque = None
    /\ total_weight = None /\ warnings = None

\* analyze_load with a placement list of the caller
InitAnalyze ==
    /\ entry = "analyze"
    /\ pc = "analyze"
    /\ vehicle \in Vehicles
    /\ cargo_items \in AnalysisCargoLists
    /\ placements \in PlacementLists
    /\ analysis = None
    /\ cog = None /\ stability_score = None /\ torque = None
    /\ total_weight = None /\ warnings = None

\* a direct call of calculate_stability_score(cog, vehicle)
InitScore ==
    /\ entry = "score"
    /\ pc = "score"
    /\ vehicle \in AnyVehicles
    /\ cog \in Cogs
    /\ cargo_items = <<>> /\ placements = <<>> /\ analysis = None
    /\ stability_score = None /\ torque = None
    /\ total_weight = None /\ warnings = None

\* a direct call of generate_warnings(cog, stability_score, torque, vehicle,
\* total_weight)
InitWarn ==
    /\ entry = "warn"
    /\ pc = "warn"
    /\ vehicle = WarnVehicle
    /\ cog \in WarnCogs
    /\ stability_score \in WarnScores
    /\ torque \in WarnTorques
    /\ total_weight \in WarnWeights
    /\ cargo_items = <<>> /\ placements = <<>> /\ analysis = None
    /\ warnings = None

Init == InitGenerate \/ InitAnalyze \/ InitScore \/ InitWarn

OptimizePlacement ==
    /\ pc = "optimize"
    /\ placements' = optimize_placement(cargo_items, vehicle)
    /\ pc' = "analyze"
    /\ UNCHANGED <<vehicle, cargo_items, analysis, cog, stability_score,
                   torque, total_weight, warnings, entry>>

AnalyzeLoad ==
    /\ pc = "analyze"
    /\ analysis' = analyze_load(placements, cargo_items, vehicle)
    /\ pc' = "analyzed"
    /\ UNCHANGED <<vehicle, cargo_items, placements, cog, stability_score,
                   torque, total_weight, warnings, entry>>

CalculateStabilityScore ==
    /\ pc = "score"
    /\ stability_score' = calculate_stability_score(cog, vehicle)
    /\ pc' = "scored"
    /\ UNCHANGED <<vehicle, cargo_items, placements, analysis, cog, torque,
                   total_weight, warnings, entry>>

GenerateWarnings ==
    /\ pc = "warn"
    /\ warnings' = generate_warnings(cog, stability_score, torque, vehicle,
                                     total_weight)
    /\ pc' = "warned"
    /\ UNCHANGED <<vehicle, cargo_items, placements, analysis, cog,
                   stability_score, torque, total_weight, entry>>

Next ==
    \/ OptimizePlacement
    \/ AnalyzeLoad
    \/ CalculateStabilityScore
    \/ GenerateWarnings

Spec == Init /\ [][Next]_vars

-----------------------------------------------------------------------------
(* Properties *)

Analyzed == pc = "analyzed"

\* the ids the cargo list carries
KnownIds == {cargo_items[i].cargo_id : i \in DOMAIN cargo_items}

\* the placements whose cargo id the cargo list carries
KnownPlacements == SelectSeq(placements, LAMBDA p : p.cargo_id \in KnownIds)

\* sum of f[i] over the finite index set I
RECURSIVE SumOver(_, _)
SumOver(f, I) ==
    IF I = {} THEN Zero
    ELSE LET i == CHOOSE j \in I : TRUE
         IN  Add(f[i], SumOver(f, I \ {i}))

\* C1: in every result of analyze_load, is_safe is true exactly when the
\* returned stability_score is at least 70 and the returned total_weight is
\* at most vehicle.max_load.
C1_IsSafeIff ==
    Analyzed =>
        (analysis.is_safe <=>
            (/\ ~Lt(analysis.stability_score, Num(70))
             /\ ~Gt(analysis.total_weight, vehicle.max_load)))

\* C1 witness: a result whose score is at least 70 while the load exceeds
\* max_load, so that the weight alone makes the load unsafe.
C1_Witness ==
    /\ Analyzed
    /\ Ge(analysis.stability_score, Num(70))
    /\ Gt(analysis.total_weight, vehicle.max_load)
    /\ ~analysis.is_safe

\* C2: total_weight of an analyze_load result is the sum of the weights of
\* all items of cargo_items, whatever the placements are.
C2_TotalWeightAllCargo ==
    Analyzed =>
        analysis.total_weight =
            SumOver([i \in DOMAIN cargo_items |-> cargo_items[i].weight],
                    DOMAIN cargo_items)

\* C2 witness: two cargo items, the first placed twice and the second not
\* placed at all.
C2_Witness ==
    /\ Analyzed
    /\ Len(cargo_items) = 2
    /\ Len(placements) = 2
    /\ \A i \in DOMAIN placements : placements[i].cargo_id = 1
    /\ analysis.total_weight = Add(cargo_items[1].weight, cargo_items[2].weight)

\* number of entries of seq whose cargo_id is id
CountId(seq, id) == Cardinality({i \in DOMAIN seq : seq[i].cargo_id = id})

Optimized == entry = "generate" /\ pc # "optimize"

\* C3: optimize_placement returns one placement per cargo item: as many
\* placements as items, every cargo id as often as in the input, every
\* rotation 0.
C3_OnePlacementPerItem ==
    Optimized =>
        /\ Len(placements) = Len(cargo_items)
        /\ \A id \in KnownIds \cup {placements[i].cargo_id : i \in DOMAIN placements} :
               CountId(placements, id) = CountId(cargo_items, id)
        /\ \A i \in DOMAIN placements : placements[i].rotation = 0

\* C3 witness: a layout of three items, one of them longer than the vehicle,
\* whose stack rises above the vehicle height.
C3_Witness ==
    /\ Optimized
    /\ Len(placements) = 3
    /\ \E i \in DOMAIN cargo_items : Gt(cargo_items[i].length, vehicle.length)
    /\ \E i \in DOMAIN placements :
           Gt(Add(placements[i].position_z,
                  cargo_dict(cargo_items)[placements[i].cargo_id].height),
              vehicle.height)

\* C4: placements of unknown cargo ids are ignored: the centre of gravity
\* and the torque are those of the placement list without them, and the
\* total weight is the same.
C4_UnknownIdIgnored ==
    Analyzed =>
        LET without == analyze_load(KnownPlacements, cargo_items, vehicle)
        IN  /\ analysis.center_of_gravity = without.center_of_gravity
            /\ analysis.torque_analysis = without.torque_analysis
            /\ analysis.total_weight = without.total_weight
            /\ analysis.center_of_gravity.x # ZeroDivisionError

\* C4 witness: an analysed list of one known and one unknown placement.
C4_Witness ==
    /\ Analyzed
    /\ Len(placements) = 2
    /\ Len(KnownPlacements) = 1
    /\ analysis.center_of_gravity.x # Zero

\* C5: when no weight is placed (no placement, no cargo, or only placements
\* of unknown ids), the centre of gravity is exactly (0, 0, 0) and no
\* division by zero is raised.
C5_ZeroWeightCog ==
    (Analyzed /\ KnownPlacements = <<>>) =>
        analysis.center_of_gravity = [x |-> Zero, y |-> Zero, z |-> Zero]

\* C5 witness: cargo is present and every placement references an unknown id.
C5_Witness ==
    /\ Analyzed
    /\ cargo_items # <<>>
    /\ placements # <<>>
    /\ KnownPlacements = <<>>
    /\ analysis.center_of_gravity = [x |-> Zero, y |-> Zero, z |-> Zero]

\* C6: calculate_stability_score returns a value between 0 and 100 for
\* every centre of gravity and every vehicle, a zero dimension included.
C6_ScoreRange ==
    /\ pc = "scored" =>
           Le(Zero, stability_score) /\ Le(stability_score, Num(100))
    /\ Analyzed =>
           Le(Zero, analysis.stability_score)
           /\ Le(analysis.stability_score, Num(100))

\* C6 witness: a vehicle of zero length and a centre of gravity far outside
\* it, scored 0.
C6_Witness ==
    /\ pc = "scored"
    /\ vehicle.length = Zero
    /\ vehicle.width # Zero
    /\ cog.y = Num(1000)
    /\ stability_score = Zero

\* the rule number of a message of generate_warnings
RuleOf(msg) ==
    CASE msg = MsgOverCapacity  -> 1
      [] msg = MsgNearCapacity  -> 2
      [] msg = MsgPoorStability -> 3
      [] msg = MsgSuboptimal    -> 4
      [] msg = MsgLateral       -> 5
      [] msg = MsgLongitudinal  -> 6
      [] msg = MsgHighCog       -> 7
      [] msg = MsgRollTorque    -> 8
      [] msg = MsgPitchTorque   -> 9
      [] OTHER                  -> 0

Warned(msg) == \E i \in DOMAIN warnings : warnings[i] = msg

\* C7: the messages come in rule order, each exactly when its rule holds:
\* overload iff weight > max_load; near capacity iff not overloaded and
\* weight > 0.9 max_load; poor iff score < 50; suboptimal iff 50 <= score <
\* 70; rules 5 to 9 each iff its own threshold is passed.  So the two
\* capacity messages exclude each other, as do the two stability messages,
\* and there are at most 7 messages.
C7_WarningRules ==
    pc = "warned" =>
        LET over  == Gt(total_weight, vehicle.max_load)
            limit == Mul(Mul(total_weight, vehicle.width), Rat(1, 10))
        IN  /\ Warned(MsgOverCapacity) <=> over
            /\ Warned(MsgNearCapacity) <=>
                   (~over /\ Gt(total_weight, Mul(Rat(9, 10), vehicle.max_load)))
            /\ Warned(MsgPoorStability) <=> Lt(stability_score, Num(50))
            /\ Warned(MsgSuboptimal) <=>
                   (Le(Num(50), stability_score) /\ Lt(stability_score, Num(70)))
            /\ Warned(MsgLateral) <=>
                   Gt(abs(Sub(cog.y, Div(vehicle.width, Num(2)))),
                      Mul(Rat(15, 100), vehicle.width))
            /\ Warned(MsgLongitudinal) <=>
                   Gt(abs(Sub(cog.x, Div(vehicle.length, Num(2)))),
                      Mul(Rat(2, 10), vehicle.length))
            /\ Warned(MsgHighCog) <=> Gt(cog.z, Mul(Rat(6, 10), vehicle.height))
            /\ Warned(MsgRollTorque) <=> Gt(torque.roll, limit)
            /\ Warned(MsgPitchTorque) <=> Gt(torque.pitch, limit)
            /\ \A i \in DOMAIN warnings : RuleOf(warnings[i]) \in 1..9
            /\ \A i, j \in DOMAIN warnings :
                   i < j => RuleOf(warnings[i]) < RuleOf(warnings[j])
            /\ ~(Warned(MsgOverCapacity) /\ Warned(MsgNearCapacity))
            /\ ~(Warned(MsgPoorStability) /\ Warned(MsgSuboptimal))
            /\ Len(warnings) <= 7

\* C7 witness: a call that returns seven messages, the most there can be.
C7_Witness ==
    /\ pc = "warned"
    /\ Len(warnings) = 7

\* the cargo item a placement of the optimizer places
Placed(i) == cargo_dict(cargo_items)[placements[i].cargo_id]

\* C8 as claimed: every placement of optimize_placement has
\* 0 <= position_y <= vehicle.width - cargo.width, also for an item wider than
\* the vehicle.
C8_Original ==
    Optimized =>
        \A i \in DOMAIN placements :
            /\ Le(Zero, placements[i].position_y)
            /\ Le(placements[i].position_y, Sub(vehicle.width, Placed(i).width))

\* C8 amended: for every item no wider than the vehicle,
\* 0 <= position_y <= vehicle.width - cargo.width; an item wider than the
\* vehicle is placed at position_y = 0, above vehicle.width - cargo.width.
C8_ClampedY ==
    Optimized =>
        \A i \in DOMAIN placements :
            IF Le(Placed(i).width, vehicle.width)
            THEN /\ Le(Zero, placements[i].position_y)
                 /\ Le(placements[i].position_y,
                       Sub(vehicle.width, Placed(i).width))
            ELSE /\ placements[i].position_y = Zero
                 /\ Gt(placements[i].position_y,
                       Sub(vehicle.width, Placed(i).width))

\* C8 witness: a layout with an item wider than the vehicle and an item
\* narrower than it, the latter placed off the wall.
C8_Witness ==
    /\ Optimized
    /\ \E i \in DOMAIN placements : Gt(Placed(i).width, vehicle.width)
    /\ \E i \in DOMAIN placements :
           /\ Lt(Placed(i).width, vehicle.width)
           /\ Gt(placements[i].position_y, Zero)

\* C9: when the lengths of all items sum to at most vehicle.length, the
\* optimizer fills one row: every position_z is 0, the first position_x is 0,
\* each position_x is the sum of the lengths placed before it, position_x
\* increases strictly and no two x-intervals overlap.
C9_OneRow ==
    (Optimized
     /\ Le(SumOver([i \in DOMAIN cargo_items |-> cargo_items[i].length],
                   DOMAIN cargo_items),
           vehicle.length)) =>
        /\ \A i \in DOMAIN placements :
               /\ placements[i].position_z = Zero
               /\ placements[i].position_x =
                      SumOver([j \in DOMAIN placements |-> Placed(j).length],
                              1..(i - 1))
        /\ placements # <<>> => placements[1].position_x = Zero
        /\ \A i, j \in DOMAIN placements :
               i < j =>
                   /\ Lt(placements[i].position_x, placements[j].position_x)
                   /\ Le(Add(placements[i].position_x, Placed(i).length),
                         placements[j].position_x)

\* C9 witness: three items that fill the vehicle's length exactly, in one row.
C9_Witness ==
    /\ Optimized
    /\ Len(placements) = 3
    /\ SumOver([i \in DOMAIN cargo_items |-> cargo_items[i].length],
               DOMAIN cargo_items) = vehicle.length
    /\ \A i \in DOMAIN placements : placements[i].position_z = Zero
    /\ Gt(placements[3].position_x, placements[2].position_x)

AllKnown == \A i \in DOMAIN placements : placements[i].cargo_id \in KnownIds

\* the centre of the bounding box of placement i on each axis
CenterX(i) == Add(placements[i].position_x, Div(Placed(i).length, Num(2)))
CenterY(i) == Add(placements[i].position_y, Div(Placed(i).width, Num(2)))
CenterZ(i) == Add(placements[i].position_z, Div(Placed(i).height, Num(2)))

LateralDeviation(y) == abs(Sub(y, Div(vehicle.width, Num(2))))

\* the score of the centre of gravity of the call with its y replaced
ScoreAtY(y) ==
    calculate_stability_score([x |-> cog.x, y |-> y, z |-> cog.z], vehicle)

\* C11: with the vehicle, cog.x and cog.z fixed, a centre of gravity with a
\* larger lateral deviation |cog.y - vehicle.width / 2| never gets a strictly
\* higher score.
C11_LateralMonotone ==
    pc = "scored" =>
        \A y \in Coordinates :
            Ge(LateralDeviation(y), LateralDeviation(cog.y)) =>
                Le(ScoreAtY(y), stability_score)

\* C11 witness: a scored centre of gravity off the lateral centre, with a
\* positive score, that another y of larger deviation scores strictly lower
\* and a y of the same deviation on the other side scores the same.
C11_Witness ==
    /\ pc = "scored"
    /\ Gt(stability_score, Zero)
    /\ Gt(LateralDeviation(cog.y), Zero)
    /\ \E y \in Coordinates :
           /\ Gt(LateralDeviation(y), LateralDeviation(cog.y))
           /\ Lt(ScoreAtY(y), stability_score)
    /\ \E y \in Coordinates :
           /\ y # cog.y
           /\ LateralDeviation(y) = LateralDeviation(cog.y)
           /\ ScoreAtY(y) = stability_score

\* the position in cargo_items of the item that placement i places
InputIndex(i) ==
    CHOOSE k \in DOMAIN cargo_items :
        cargo_items[k].cargo_id = placements[i].cargo_id

\* C12: the optimizer emits the cargo heaviest first and stably: along the
\* output the weights never increase, and items of equal weight keep the
\* order they have in cargo_items.
C12_HeaviestFirstStable ==
    Optimized =>
        \A i, j \in DOMAIN placements :
            i < j =>
                /\ Ge(Placed(i).weight, Placed(j).weight)
                /\ Placed(i).weight = Placed(j).weight =>
                       InputIndex(i) < InputIndex(j)

\* C12 witness: three items, the heaviest last in the input and first in the
\* output, the two lighter ones of equal weight in their input order.
C12_Witness ==
    /\ Optimized
    /\ Len(placements) = 3
    /\ InputIndex(1) = 3
    /\ InputIndex(2) = 1
    /\ InputIndex(3) = 2
    /\ Gt(Placed(1).weight, Placed(2).weight)
    /\ Placed(2).weight = Placed(3).weight

\* the locals of optimize_placement after the first k items
LoopState(k) == place_loop(sorted_cargo(cargo_items), vehicle, k)

\* current_x when the optimizer comes to the item of placement i
CurrentXBefore(i) ==
    IF i = 1 THEN Zero
    ELSE Add(placements[i - 1].position_x, Placed(i - 1).length)

\* the item of placement i did not fit the row that was current
NotFit(i) == Gt(Add(CurrentXBefore(i), Placed(i).length), vehicle.length)

\* the first placement of the row of placement i
RowStart(i) ==
    LET starts == {k \in 1..i : k = 1 \/ NotFit(k)}
    IN  CHOOSE k \in starts : \A m \in starts : m <= k

\* the last placement of the row that starts at r
RowEnd(r) ==
    LET later == {k \in DOMAIN placements : k > r /\ NotFit(k)}
    IN  IF later = {} THEN Len(placements)
        ELSE (CHOOSE k \in later : \A m \in later : k <= m) - 1

\* the largest height among the items of placements a..b, 0 for none
RECURSIVE MaxHeight(_, _)
MaxHeight(a, b) ==
    IF b < a THEN Zero
    ELSE LET m == MaxHeight(a, b - 1)
         IN  IF Gt(Placed(b).height, m) THEN Placed(b).height ELSE m

\* the rows that start before the row of placement i
EarlierRows(i) ==
    {r \in 1..(RowStart(i) - 1) : r = 1 \/ NotFit(r)}

\* C13: an item that does not fit the current row is placed at position_x = 0
\* and position_z = z of the closed row + the largest height in the closed
\* row (0 for an empty row), and max_row_height restarts at its height.  So
\* position_z never decreases along the output, and the z of a row is the
\* sum of the largest heights of all earlier rows.
C13_NewRow ==
    Optimized =>
        /\ \A i \in DOMAIN placements :
               NotFit(i) =>
                   /\ placements[i].position_x = Zero
                   /\ placements[i].position_z =
                          IF i = 1 THEN Zero
                          ELSE Add(placements[RowStart(i - 1)].position_z,
                                   MaxHeight(RowStart(i - 1), i - 1))
                   /\ LoopState(i).max_row_height = Placed(i).height
        /\ \A i, j \in DOMAIN placements :
               i < j => Le(placements[i].position_z, placements[j].position_z)
        /\ \A i \in DOMAIN placements :
               placements[i].position_z =
                   SumOver([r \in EarlierRows(i) |-> MaxHeight(r, RowEnd(r))],
                           EarlierRows(i))

\* C13 witness: a row of two items, the first the taller, closed by a third
\* item that does not fit and is placed at the height of the taller one.
C13_Witness ==
    /\ Optimized
    /\ Len(placements) = 3
    /\ ~NotFit(1) /\ ~NotFit(2) /\ NotFit(3)
    /\ Gt(Placed(1).height, Placed(2).height)
    /\ placements[3].position_x = Zero
    /\ placements[3].position_z = Placed(1).height
    /\ placements[3].position_z # Placed(3).height

\* the half-open intervals [a, a + m) and [b, b + n) share a point
IntervalsMeet(a, m, b, n) == Lt(a, Add(b, n)) /\ Lt(b, Add(a, m))

\* the boxes of placements i and j share a point of their interiors
BoxesOverlap(i, j) ==
    /\ IntervalsMeet(placements[i].position_x, Placed(i).length,
                     placements[j].position_x, Placed(j).length)
    /\ IntervalsMeet(placements[i].position_y, Placed(i).width,
                     placements[j].position_y, Placed(j).width)
    /\ IntervalsMeet(placements[i].position_z, Placed(i).height,
                     placements[j].position_z, Placed(j).height)

\* C14: no two boxes of an optimizer layout overlap: two items of one row
\* have disjoint x-intervals, and an item of a later row starts at or above
\* the top of every item of every earlier row; also with items longer than
\* the vehicle.
C14_NoOverlap ==
    Optimized =>
        \A i, j \in DOMAIN placements :
            i < j =>
                /\ IF RowStart(i) = RowStart(j)
                   THEN Le(Add(placements[i].position_x, Placed(i).length),
                           placements[j].position_x)
                   ELSE Le(Add(placements[i].position_z, Placed(i).height),
                           placements[j].position_z)
                /\ ~BoxesOverlap(i, j)

\* C14 witness: a row of two items of different heights under a third item
\* that is longer than the vehicle and rests on top of the taller one.
C14_Witness ==
    /\ Optimized
    /\ Len(placements) = 3
    /\ RowStart(2) = 1
    /\ RowStart(3) = 3
    /\ Placed(1).height # Placed(2).height
    /\ Gt(Placed(3).length, vehicle.length)
    /\ placements[3].position_z = MaxHeight(1, 2)
    /\ IntervalsMeet(placements[1].position_x, Placed(1).length,
                     placements[3].position_x, Placed(3).length)
    /\ IntervalsMeet(placements[1].position_y, Placed(1).width,
                     placements[3].position_y, Placed(3).width)

InWarnings(msg) ==
    \E i \in DOMAIN analysis.warnings : analysis.warnings[i] = msg

\* C15: analyze_load takes the torque about the centre of gravity of the same
\* placements, so the pitch and roll sums are 0, and neither torque warning
\* appears in a result of analyze_load.
C15_NoTorqueWarning ==
    Analyzed =>
        /\ analysis.torque_analysis.pitch = Zero
        /\ analysis.torque_analysis.roll = Zero
        /\ ~InWarnings(MsgRollTorque)
        /\ ~InWarnings(MsgPitchTorque)

\* C15 witness: two placed items of different weights at different corners,
\* whose yaw sum is not 0 while pitch and roll are.
C15_Witness ==
    /\ Analyzed /\ AllKnown
    /\ Len(placements) = 2
    /\ Placed(1).weight # Placed(2).weight
    /\ CenterX(1) # CenterX(2)
    /\ CenterY(1) # CenterY(2)
    /\ analysis.torque_analysis.yaw # Zero
    /\ analysis.torque_analysis.pitch = Zero
    /\ analysis.torque_analysis.roll = Zero

\* the analysed layout is the optimizer's, and no item is wider than the
\* vehicle
OptimizedFitsWidth ==
    /\ Analyzed
    /\ entry = "generate"
    /\ \A i \in DOMAIN cargo_items : Le(cargo_items[i].width, vehicle.width)

C17_SafeIffNoBlockingWarning ==
    Analyzed =>
        (analysis.is_safe <=>
            (/\ ~InWarnings(MsgOverCapacity)
             /\ ~InWarnings(MsgPoorStability)
             /\ ~InWarnings(MsgSuboptimal)))

\* C17 witness: a safe result that carries the lateral imbalance warning,
\* marked CRITICAL, and no message of rules 1, 3 and 4.
C17_Witness ==
    /\ Analyzed
    /\ analysis.is_safe
    /\ InWarnings(MsgLateral)
    /\ ~InWarnings(MsgOverCapacity)
    /\ ~InWarnings(MsgPoorStability)
    /\ ~InWarnings(MsgSuboptimal)

====
